---- MODULE Spec2Model ----
(***************************************************************************)
(* Model of salary2445_bot (src/main.py): a Telegram bot that keeps a      *)
(* ledger of deposit deals in deals.json.  Deals are created through a     *)
(* six-step conversation (/deal), removed with /delete and listed by the   *)
(* report commands.                                                        *)
(*                                                                         *)
(* Texts are sequences of one-character strings, so that parsing is        *)
(* computed the way the code computes it.  The input alphabet is the ASCII *)
(* digits, ".", ",", "/", "-", "+", "#", " " and a few letters; inside it  *)
(* the parsers below accept and reject what Python's re, int() and float() *)
(* accept and reject.  Floats are exact rationals [n, d]: rounding is not  *)
(* modelled.  There is one clock, `now`: the UTC date of line 33 and the   *)
(* local year of line 39 are read from it.                                 *)
(*                                                                         *)
(* A handler is a coroutine: it runs on the event loop thread without      *)
(* interruption up to its next await, where other handlers may run.        *)
(***************************************************************************)
EXTENDS Integers, Sequences, FiniteSets, TLC

VARIABLES
    file,       \* deals.json: [state: "absent" | "ok" | "corrupt", body: JSON value]
    conv,       \* ConversationHandler state of each user
    user_data,  \* context.user_data of each user
    task,       \* the handler coroutine in flight for each user
    running,    \* the user whose handler holds the event loop thread, or NoUser
    now,        \* the current calendar date [year, month, day]
    call,       \* a helper function applied on its own: [fn, arg, clock, ret]
    created,    \* history: how many deals were ever created for each date_iso
    accepted,   \* history: the steps that accepted a text in each user's
                \* conversation since it started, with the text, in order
    ledger_before   \* history: the ledger when each user's /deal was taken,
                    \* where that is noted

vars == <<file, conv, user_data, task, running, now, call, created, accepted, ledger_before>>

\* None and the exceptions are records, so that they compare (unequal) with
\* dates and floats, which are records too
None == [none |-> TRUE]
ValueError == [exc |-> "ValueError"]
ZeroDivisionError == [exc |-> "ZeroDivisionError"]
OSError == [exc |-> "OSError"]
NoUser == "nobody"

(***************************************************************************)
(* Text                                                                    *)
(***************************************************************************)
Digit == {"0", "1", "2", "3", "4", "5", "6", "7", "8", "9"}

DigitVal(c) ==
    CASE c = "0" -> 0 [] c = "1" -> 1 [] c = "2" -> 2 [] c = "3" -> 3
      [] c = "4" -> 4 [] c = "5" -> 5 [] c = "6" -> 6 [] c = "7" -> 7
      [] c = "8" -> 8 [] c = "9" -> 9

IsDigitAt(txt, i) == i >= 1 /\ i <= Len(txt) /\ txt[i] \in Digit

\* str.strip(): leading and trailing whitespace removed
RECURSIVE LStrip(_)
LStrip(txt) ==
    IF txt # <<>> /\ Head(txt) = " " THEN LStrip(Tail(txt)) ELSE txt

RECURSIVE RStrip(_)
RStrip(txt) ==
    IF txt # <<>> /\ txt[Len(txt)] = " "
    THEN RStrip(SubSeq(txt, 1, Len(txt) - 1))
    ELSE txt

strip(txt) == RStrip(LStrip(txt))

\* str.lower() on the input alphabet
LowerChar(c) ==
    CASE c = "T" -> "t" [] c = "O" -> "o" [] c = "D" -> "d"
      [] c = "A" -> "a" [] c = "Y" -> "y" [] c = "X" -> "x"
      [] OTHER -> c

lower(txt) == [i \in 1..Len(txt) |-> LowerChar(txt[i])]

\* str.replace(",", ".")
replace_comma(txt) == [i \in 1..Len(txt) |-> IF txt[i] = "," THEN "." ELSE txt[i]]

\* value of a run of decimal digits
RECURSIVE DigitsVal(_)
DigitsVal(ds) ==
    IF ds = <<>> THEN 0
    ELSE 10 * DigitsVal(SubSeq(ds, 1, Len(ds) - 1)) + DigitVal(ds[Len(ds)])

AllDigits(ds) == \A i \in 1..Len(ds) : ds[i] \in Digit

\* int(text): optional surrounding whitespace, optional sign, then digits only;
\* the result is [int |-> k]
int(txt) ==
    LET s == strip(txt)
        signed == s # <<>> /\ Head(s) \in {"+", "-"}
        ds == IF signed THEN Tail(s) ELSE s
    IN  IF ds = <<>> \/ ~AllDigits(ds) THEN ValueError
        ELSE [int |-> IF signed /\ Head(s) = "-" THEN 0 - DigitsVal(ds) ELSE DigitsVal(ds)]

(***************************************************************************)
(* Numbers: a float is the rational n/d, d > 0, in lowest terms            *)
(***************************************************************************)
Abs(x) == IF x < 0 THEN 0 - x ELSE x

RECURSIVE GCD(_, _)
GCD(a, b) == IF b = 0 THEN a ELSE GCD(b, a % b)

Rat(n, d) ==
    LET g == GCD(Abs(n), Abs(d))
        s == IF d < 0 THEN 0 - 1 ELSE 1
    IN  [n |-> (s * n) \div g, d |-> (s * d) \div g]

RatMul(a, b) == Rat(a.n * b.n, a.d * b.d)
RatSub(a, b) == Rat(a.n * b.d - b.n * a.d, a.d * b.d)
RatAdd(a, b) == Rat(a.n * b.d + b.n * a.d, a.d * b.d)
\* a / b for b # 0 (the caller raises ZeroDivisionError when b = 0)
RatDiv(a, b) == Rat(a.n * b.d, a.d * b.n)
RatOfInt(k) == [n |-> k, d |-> 1]
RatPositive(a) == a.n > 0

RECURSIVE Pow10(_)
Pow10(k) == IF k = 0 THEN 1 ELSE 10 * Pow10(k - 1)

\* position of the first "." in txt, or 0
RECURSIVE DotAt(_, _)
DotAt(txt, i) ==
    IF i > Len(txt) THEN 0 ELSE IF txt[i] = "." THEN i ELSE DotAt(txt, i + 1)

\* the text as a number: whitespace stripped, optional sign, digits with at
\* most one "." and at least one digit
float_of(txt) ==
    LET s == strip(txt)
        signed == s # <<>> /\ Head(s) \in {"+", "-"}
        body == IF signed THEN Tail(s) ELSE s
        dot == DotAt(body, 1)
        ip == IF dot = 0 THEN body ELSE SubSeq(body, 1, dot - 1)
        fp == IF dot = 0 THEN <<>> ELSE SubSeq(body, dot + 1, Len(body))
        mag == Rat(DigitsVal(ip) * Pow10(Len(fp)) + DigitsVal(fp), Pow10(Len(fp)))
    IN  IF ~AllDigits(ip) \/ ~AllDigits(fp) \/ (ip = <<>> /\ fp = <<>>)
        THEN ValueError
        ELSE IF signed /\ Head(s) = "-" THEN Rat(0 - mag.n, mag.d) ELSE mag

\* float(text) that takes a text that is no number as 0 instead of raising
float_lenient(txt) ==
    IF float_of(txt) = ValueError THEN Rat(0, 1) ELSE float_of(txt)

\* float(text)
float(txt) == float_of(txt)

(***************************************************************************)
(* Calendar dates: datetime.date as [year, month, day]                     *)
(***************************************************************************)
is_leap(y) == y % 4 = 0 /\ (y % 100 # 0 \/ y % 400 = 0)

days_in_month(y, m) ==
    IF m = 2 THEN (IF is_leap(y) THEN 29 ELSE 28)
    ELSE IF m \in {4, 6, 9, 11} THEN 30 ELSE 31

days_before_year(y) ==
    LET p == y - 1 IN p * 365 + (p \div 4) - (p \div 100) + (p \div 400)

RECURSIVE days_before_month(_, _)
days_before_month(y, m) ==
    IF m = 1 THEN 0 ELSE days_before_month(y, m - 1) + days_in_month(y, m - 1)

\* date(year, month, day): ValueError unless it is a calendar day
date(y, m, d) ==
    IF m \in 1..12 /\ d >= 1 /\ d <= days_in_month(y, m)
    THEN [year |-> y, month |-> m, day |-> d]
    ELSE ValueError

\* date.toordinal(): 1 is 0001-01-01
toordinal(dt) ==
    days_before_year(dt.year) + days_before_month(dt.year, dt.month) + dt.day

\* date.weekday(): Monday is 0
weekday(dt) == (toordinal(dt) + 6) % 7

\* date.fromordinal(), as datetime._ord2ymd computes it
fromordinal(ord) ==
    LET n0 == ord - 1
        n400 == n0 \div 146097
        r400 == n0 % 146097
        n100 == r400 \div 36524
        r100 == r400 % 36524
        n4 == r100 \div 1461
        r4 == r100 % 1461
        n1 == r4 \div 365
        n == r4 % 365
        year == n400 * 400 + 1 + n100 * 100 + n4 * 4 + n1
        leapyear == n1 = 3 /\ (n4 # 24 \/ n100 = 3)
        m0 == (n + 50) \div 32
        p0 == days_before_month(IF leapyear THEN 4 ELSE 1, m0)
        month == IF p0 > n THEN m0 - 1 ELSE m0
        preceding == days_before_month(IF leapyear THEN 4 ELSE 1, month)
    IN  IF n1 = 4 \/ n100 = 4
        THEN [year |-> year - 1, month |-> 12, day |-> 31]
        ELSE [year |-> year, month |-> month, day |-> n - preceding + 1]

\* date - timedelta(days=k) and date + timedelta(days=k)
date_minus_days(dt, k) == fromordinal(toordinal(dt) - k)
date_plus_days(dt, k) == fromordinal(toordinal(dt) + k)

\* date comparison: by (year, month, day)
date_lt(a, b) ==
    \/ a.year < b.year
    \/ a.year = b.year /\ a.month < b.month
    \/ a.year = b.year /\ a.month = b.month /\ a.day < b.day

\* the comparison with the bound itself left out
date_le_strict(a, b) == date_lt(a, b)

date_le(a, b) == a = b \/ date_lt(a, b)

DigitChar(k) ==
    CASE k = 0 -> "0" [] k = 1 -> "1" [] k = 2 -> "2" [] k = 3 -> "3"
      [] k = 4 -> "4" [] k = 5 -> "5" [] k = 6 -> "6" [] k = 7 -> "7"
      [] k = 8 -> "8" [] k = 9 -> "9"

\* "%02d" and "%04d"
Fmt02(k) == <<DigitChar((k \div 10) % 10), DigitChar(k % 10)>>
Fmt04(k) == <<DigitChar((k \div 1000) % 10), DigitChar((k \div 100) % 10)>> \o Fmt02(k)

\* date.isoformat(): "YYYY-MM-DD"
isoformat(dt) == Fmt04(dt.year) \o <<"-">> \o Fmt02(dt.month) \o <<"-">> \o Fmt02(dt.day)

\* datetime.fromisoformat(text).date() on a date-only text
fromisoformat(txt) ==
    date(DigitsVal(SubSeq(txt, 1, 4)), DigitsVal(SubSeq(txt, 6, 7)),
         DigitsVal(SubSeq(txt, 9, 10)))

(***************************************************************************)
(* HELPERS (src/main.py 19-58)                                             *)
(***************************************************************************)
Today == <<"t", "o", "d", "a", "y">>

\* re.match(r"(\d{1,2})[./](\d{1,2})", txt): [groups |-> the two groups], or None.
\* Each group is greedy; the first gives a digit back when the rest fails.
date_match(txt) ==
    LET Sep(i) == i <= Len(txt) /\ txt[i] \in {".", "/"}
        Try(k) ==   \* first group of k digits
            IF (\A i \in 1..k : IsDigitAt(txt, i)) /\ Sep(k + 1) /\ IsDigitAt(txt, k + 2)
            THEN [groups |-> <<SubSeq(txt, 1, k),
                   SubSeq(txt, k + 2, IF IsDigitAt(txt, k + 3) THEN k + 3 ELSE k + 2)>>]
            ELSE None
    IN  IF Try(2) # None THEN Try(2) ELSE Try(1)

parse_date(text, clock) ==
    LET txt == lower(strip(text))
        match == date_match(txt)
    IN  IF txt = Today THEN clock
        ELSE IF match = None THEN None
        ELSE LET day == DigitsVal(match.groups[1])
                 month == DigitsVal(match.groups[2])
                 r == date(clock.year, month, day)
             IN  IF r = ValueError THEN None ELSE r

\* the week counted from Wednesday (weekday 2)
tuesday_week_range_from_wednesday(ref, clock) ==
    LET r == IF ref = None THEN clock ELSE ref
        offset == (weekday(r) - 2) % 7
        start == date_minus_days(r, offset)
    IN  <<start, date_plus_days(start, 6)>>

tuesday_week_range(ref, clock) ==
    LET r == IF ref = None THEN clock ELSE ref
        offset == (weekday(r) - 1) % 7
        start == date_minus_days(r, offset)
    IN  <<start, date_plus_days(start, 6)>>

\* ---- deals.json: json.dumps / json.loads ----
\* A JSON value is [str |-> text], [int |-> k], [float |-> rational] or
\* [list |-> values]; an object is the sequence of its [k, v] members in
\* insertion order; the document is the sequence of objects.

\* a float cut to two decimals, as the replies print it
TwoDecimals(x) == Rat((x.n * 100) \div x.d, 100)

\* the deal written with its derived amounts cut to two decimals
dump_deal_two_decimals(deal) ==
    << [k |-> "date_iso", v |-> [str |-> deal.date_iso]],
       [k |-> "index", v |-> [int |-> deal.index]],
       [k |-> "name", v |-> [str |-> deal.name]],
       [k |-> "rub", v |-> [float |-> deal.rub]],
       [k |-> "fee", v |-> [float |-> deal.fee]],
       [k |-> "rate", v |-> [float |-> deal.rate]],
       [k |-> "clean_rub", v |-> [float |-> TwoDecimals(deal.clean_rub)]],
       [k |-> "usd", v |-> [float |-> TwoDecimals(deal.usd)]],
       [k |-> "pool", v |-> [float |-> TwoDecimals(deal.pool)]],
       [k |-> "share", v |-> [float |-> TwoDecimals(deal.share)]],
       [k |-> "members",
        v |-> [list |-> [i \in 1..Len(deal.members) |-> [str |-> deal.members[i]]]]] >>

dump_deal(deal) ==
    << [k |-> "date_iso", v |-> [str |-> deal.date_iso]],
       [k |-> "index", v |-> [int |-> deal.index]],
       [k |-> "name", v |-> [str |-> deal.name]],
       [k |-> "rub", v |-> [float |-> deal.rub]],
       [k |-> "fee", v |-> [float |-> deal.fee]],
       [k |-> "rate", v |-> [float |-> deal.rate]],
       [k |-> "clean_rub", v |-> [float |-> deal.clean_rub]],
       [k |-> "usd", v |-> [float |-> deal.usd]],
       [k |-> "pool", v |-> [float |-> deal.pool]],
       [k |-> "share", v |-> [float |-> deal.share]],
       [k |-> "members",
        v |-> [list |-> [i \in 1..Len(deal.members) |-> [str |-> deal.members[i]]]]] >>

json_dumps(deals) == [i \in 1..Len(deals) |-> dump_deal(deals[i])]

Member(obj, key) == (CHOOSE i \in 1..Len(obj) : obj[i].k = key)

load_deal(obj) ==
    LET get(key) == obj[Member(obj, key)].v
    IN  [date_iso |-> get("date_iso").str,
         index |-> get("index").int,
         name |-> get("name").str,
         rub |-> get("rub").float,
         fee |-> get("fee").float,
         rate |-> get("rate").float,
         clean_rub |-> get("clean_rub").float,
         usd |-> get("usd").float,
         pool |-> get("pool").float,
         share |-> get("share").float,
         members |-> [i \in 1..Len(get("members").list) |-> get("members").list[i].str]]

json_loads(body) == [i \in 1..Len(body) |-> load_deal(body[i])]

NoFile == [state |-> "absent", body |-> <<>>]
Truncated == [state |-> "corrupt", body |-> <<>>]

\* load_deals(): [] when the file is absent or json.loads raises
load_deals(f) ==
    IF f.state = "absent" THEN <<>>
    ELSE IF f.state = "corrupt" THEN <<>>
    ELSE json_loads(f.body)

\* save_deals(deals), when write_text succeeds
save_deals(deals) == [state |-> "ok", body |-> json_dumps(deals)]

\* what a failing write_text can leave behind: the file as it was (it could
\* not be opened) or a truncated file (opened, then the write failed)
save_deals_failed(f) == {f, Truncated}

deal_date(deal) == fromisoformat(deal.date_iso)

RECURSIVE filter_range(_, _, _)
filter_range(deals, start, end) ==
    IF deals = <<>> THEN <<>>
    ELSE LET d == deal_date(Head(deals))
             rest == filter_range(Tail(deals), start, end)
         IN  IF date_le(start, d) /\ date_le(d, end) THEN <<Head(deals)>> \o rest ELSE rest

filter_deals_by_date_range(f, start, end) == filter_range(load_deals(f), start, end)

RECURSIVE same_day(_, _)
same_day(deals, d) ==
    IF deals = <<>> THEN <<>>
    ELSE IF deal_date(Head(deals)) = d
         THEN <<Head(deals)>> \o same_day(Tail(deals), d)
         ELSE same_day(Tail(deals), d)

get_next_index_for_date(deals, d) == Len(same_day(deals, d)) + 1

\* re.findall(r"#\d+", raw): every "#" followed by digits, with its longest
\* run of digits, left to right
RECURSIVE DigitRunEnd(_, _)
DigitRunEnd(txt, i) ==
    IF IsDigitAt(txt, i + 1) THEN DigitRunEnd(txt, i + 1) ELSE i

RECURSIVE findall_members(_, _)
findall_members(raw, i) ==
    IF i > Len(raw) THEN <<>>
    ELSE IF raw[i] = "#" /\ IsDigitAt(raw, i + 1)
         THEN LET e == DigitRunEnd(raw, i + 1)
              IN  <<SubSeq(raw, i, e)>> \o findall_members(raw, e + 1)
         ELSE findall_members(raw, i + 1)

(***************************************************************************)
(* Bounds                                                                  *)
(***************************************************************************)
\* deals in the ledger: no create starts when the ledger holds MaxDeals
MaxDeals == 3
\* deals in the ledger when two users act concurrently
MaxDealsConc == 2
\* deals ever created, where creations are counted
MaxCreated == 4
\* days the clock advances
MaxTicks == 2
\* reference dates lie within RefSpan days of the first day
RefSpan == 370
\* deals in the ledger where the deals are of several dates and amounts
MaxDealsReport == 2

\* 2024-12-31, a Tuesday; the next day is in another year
StartDay == [year |-> 2024, month |-> 12, day |-> 31]

(***************************************************************************)
(* State                                                                   *)
(***************************************************************************)
Users == {"u1", "u2"}

\* DATE, NAME, AMOUNT, FEE, RATE, MEMBERS = range(6); ConversationHandler.END
DATE == 0
NAME == 1
AMOUNT == 2
FEE == 3
RATE == 4
MEMBERS == 5
END == -1

\* A handler coroutine.  pc: "idle", "load" (about to call load_deals),
\* "save" (about to call save_deals), "await_reply" (suspended in
\* await reply_text) or "raised" (an exception is leaving the handler).
Idle ==
    [pc |-> "idle", handler |-> "", text |-> <<>>, d |-> None, num |-> None,
     new_deal |-> None, deals |-> <<>>, saved |-> "no", reply |-> "",
     ret |-> None, report |-> None, exc |-> None]

EmptyUserData ==
    [date |-> None, name |-> None, amount |-> None, fee |-> None, rate |-> None]

NoCall == [fn |-> "", arg |-> None, clock |-> None, ret |-> None]

\* as if the handlers also awaited between load_deals and save_deals
AwaitPointsWithSave == {"await_reply", "save"}

\* the statements at which a coroutine suspends and other handlers may run:
\* every await in src/main.py is an await of reply_text
AwaitPoints == {"await_reply"}

\* the event loop thread after handler u moved to pc: released at an await
loop_after(u, pc) == IF pc \in AwaitPoints THEN NoUser ELSE u

\* an update for user u can be handed to a handler
can_dispatch(u) == running = NoUser /\ task[u].pc = "idle"

\* the handler of u runs up to `await update.message.reply_text(reply)`;
\* it will return ret
Reply(u, handler, text, reply, ret) ==
    /\ task' = [task EXCEPT ![u] =
                    [Idle EXCEPT !.pc = "await_reply", !.handler = handler,
                                 !.text = text, !.reply = reply, !.ret = ret]]
    /\ running' = loop_after(u, "await_reply")

(***************************************************************************)
(* WORKFLOW (src/main.py 61-152)                                           *)
(***************************************************************************)
start_deal_step(u) ==
    /\ can_dispatch(u)
    /\ conv[u] = END
    /\ Reply(u, "start_deal", <<>>, "ask_date", [state |-> DATE])
    /\ UNCHANGED <<file, conv, user_data, now, call, created, accepted>>

start_deal(u) == start_deal_step(u) /\ UNCHANGED ledger_before

\* the same step with the ledger of that moment noted (history only)
start_deal_noting_ledger(u) ==
    /\ start_deal_step(u)
    /\ ledger_before' = [ledger_before EXCEPT ![u] = load_deals(file)]

get_date(u, text) ==
    /\ can_dispatch(u)
    /\ conv[u] = DATE
    /\ LET d == parse_date(text, now)
       IN  IF d = None
           THEN /\ Reply(u, "get_date", text, "bad_date", [state |-> DATE])
                /\ UNCHANGED user_data
           ELSE /\ user_data' = [user_data EXCEPT ![u].date = d]
                /\ Reply(u, "get_date", text, "ask_name", [state |-> NAME])
    /\ UNCHANGED <<file, conv, now, call, created, accepted, ledger_before>>

get_name(u, text) ==
    /\ can_dispatch(u)
    /\ conv[u] = NAME
    /\ user_data' = [user_data EXCEPT ![u].name = [str |-> strip(text)]]
    /\ Reply(u, "get_name", text, "ask_amount", [state |-> AMOUNT])
    /\ UNCHANGED <<file, conv, now, call, created, accepted, ledger_before>>

\* the amount step that keeps an amount user_data already holds
get_amount_keeps_first(u, text) ==
    /\ can_dispatch(u)
    /\ conv[u] = AMOUNT
    /\ LET x == float(replace_comma(text))
       IN  IF x = ValueError
           THEN /\ Reply(u, "get_amount", text, "not_number", [state |-> AMOUNT])
                /\ UNCHANGED user_data
           ELSE /\ user_data' = [user_data EXCEPT ![u].amount =
                                    IF @ = None THEN x ELSE @]
                /\ Reply(u, "get_amount", text, "ask_fee", [state |-> FEE])
    /\ UNCHANGED <<file, conv, now, call, created, accepted, ledger_before>>

get_amount(u, text) ==
    /\ can_dispatch(u)
    /\ conv[u] = AMOUNT
    /\ LET x == float(replace_comma(text))
       IN  IF x = ValueError
           THEN /\ Reply(u, "get_amount", text, "not_number", [state |-> AMOUNT])
                /\ UNCHANGED user_data
           ELSE /\ user_data' = [user_data EXCEPT ![u].amount = x]
                /\ Reply(u, "get_amount", text, "ask_fee", [state |-> FEE])
    /\ UNCHANGED <<file, conv, now, call, created, accepted, ledger_before>>

get_fee(u, text) ==
    /\ can_dispatch(u)
    /\ conv[u] = FEE
    /\ LET x == float(replace_comma(text))
       IN  IF x = ValueError
           THEN /\ Reply(u, "get_fee", text, "not_number", [state |-> FEE])
                /\ UNCHANGED user_data
           ELSE /\ user_data' = [user_data EXCEPT ![u].fee = x]
                /\ Reply(u, "get_fee", text, "ask_rate", [state |-> RATE])
    /\ UNCHANGED <<file, conv, now, call, created, accepted, ledger_before>>

get_rate(u, text) ==
    /\ can_dispatch(u)
    /\ conv[u] = RATE
    /\ LET x == float(replace_comma(text))
       IN  IF x = ValueError
           THEN /\ Reply(u, "get_rate", text, "bad_rate", [state |-> RATE])
                /\ UNCHANGED user_data
           ELSE /\ user_data' = [user_data EXCEPT ![u].rate = x]
                /\ Reply(u, "get_rate", text, "ask_members", [state |-> MEMBERS])
    /\ UNCHANGED <<file, conv, now, call, created, accepted, ledger_before>>

\* the deal with the fee taken as a fraction, not as a percentage
compute_deal_fee_fraction(ud, members) ==
    LET total == RatOfInt(Len(members))
        rub == ud.amount
        fee == ud.fee
        rate == ud.rate
        clean_rub == RatSub(rub, RatMul(rub, fee))
        usd == RatDiv(clean_rub, rate)
        pool == RatMul(usd, Rat(25, 100))
        share == RatDiv(pool, total)
    IN  [date_iso |-> isoformat(ud.date), index |-> 0, name |-> ud.name.str,
         rub |-> rub, fee |-> fee, rate |-> rate, clean_rub |-> clean_rub,
         usd |-> usd, pool |-> pool, share |-> share, members |-> members]

\* lines 113-140 without the index: the deal computed from user_data
compute_deal(ud, members) ==
    LET total == RatOfInt(Len(members))
        rub == ud.amount
        fee == ud.fee
        rate == ud.rate
        clean_rub == RatSub(rub, RatDiv(RatMul(rub, fee), RatOfInt(100)))
        usd == RatDiv(clean_rub, rate)
        pool == RatMul(usd, Rat(25, 100))
        share == RatDiv(pool, total)
    IN  [date_iso |-> isoformat(ud.date), index |-> 0, name |-> ud.name.str,
         rub |-> rub, fee |-> fee, rate |-> rate, clean_rub |-> clean_rub,
         usd |-> usd, pool |-> pool, share |-> share, members |-> members]

\* lines 107-124: up to the first await or to load_deals()
get_members(u, text) ==
    /\ can_dispatch(u)
    /\ conv[u] = MEMBERS
    /\ Len(load_deals(file)) < MaxDeals
    /\ LET members == findall_members(strip(text), 1)
           ud == user_data[u]
       IN  IF members = <<>>
           THEN Reply(u, "get_members", text, "need_member", [state |-> MEMBERS])
           ELSE IF ud.rate.n = 0
           THEN /\ task' = [task EXCEPT ![u] =
                              [Idle EXCEPT !.pc = "raised", !.handler = "get_members",
                                           !.text = text, !.exc = ZeroDivisionError]]
                /\ running' = loop_after(u, "raised")
           ELSE /\ task' = [task EXCEPT ![u] =
                              [Idle EXCEPT !.pc = "load", !.handler = "get_members",
                                           !.text = text, !.d = ud.date,
                                           !.new_deal = compute_deal(ud, members)]]
                /\ running' = loop_after(u, "load")
    /\ UNCHANGED <<file, conv, user_data, now, call, created, accepted, ledger_before>>

\* the new deal put in front of the loaded deals
get_members_load_in_front(u) ==
    /\ running = u
    /\ task[u].pc = "load"
    /\ task[u].handler = "get_members"
    /\ LET deals == load_deals(file)
           idx == get_next_index_for_date(deals, task[u].d)
           new_deal == [task[u].new_deal EXCEPT !.index = idx]
       IN  task' = [task EXCEPT ![u].pc = "save", ![u].new_deal = new_deal,
                                ![u].deals = <<new_deal>> \o deals]
    /\ running' = loop_after(u, "save")
    /\ UNCHANGED <<file, conv, user_data, now, call, created, accepted, ledger_before>>

\* lines 125-142: deals = load_deals(); idx; new_deal; deals.append(new_deal)
get_members_load(u) ==
    /\ running = u
    /\ task[u].pc = "load"
    /\ task[u].handler = "get_members"
    /\ LET deals == load_deals(file)
           idx == get_next_index_for_date(deals, task[u].d)
           new_deal == [task[u].new_deal EXCEPT !.index = idx]
       IN  task' = [task EXCEPT ![u].pc = "save", ![u].new_deal = new_deal,
                                ![u].deals = Append(deals, new_deal)]
    /\ running' = loop_after(u, "save")
    /\ UNCHANGED <<file, conv, user_data, now, call, created, accepted, ledger_before>>

\* the handler with a failed write swallowed
after_save_swallowed(t, ok, reply, ret) ==
    [t EXCEPT !.pc = "await_reply", !.saved = IF ok THEN "ok" ELSE "failed",
              !.reply = reply, !.ret = ret]

\* the handler after save_deals(deals): on success it goes on to the success
\* message; a failed write raises out of the handler
after_save(t, ok, reply, ret) ==
    IF ok
    THEN [t EXCEPT !.pc = "await_reply", !.saved = "ok", !.reply = reply, !.ret = ret]
    ELSE [t EXCEPT !.pc = "raised", !.saved = "failed", !.exc = OSError]

\* lines 143-152: save_deals(deals), then the "saved" message
\* ok: whether write_text succeeds
get_members_save_step(u, ok) ==
    /\ running = u
    /\ task[u].pc = "save"
    /\ task[u].handler = "get_members"
    /\ IF ok THEN file' = save_deals(task[u].deals)
             ELSE file' \in save_deals_failed(file)
    /\ task' = [task EXCEPT ![u] = after_save(task[u], ok, "saved", [state |-> END])]
    /\ running' = loop_after(u, task'[u].pc)
    /\ UNCHANGED <<conv, user_data, now, call, accepted, ledger_before>>

get_members_save(u) ==
    \E ok \in BOOLEAN : get_members_save_step(u, ok) /\ UNCHANGED created

\* the write succeeds
get_members_save_ok(u) == get_members_save_step(u, TRUE) /\ UNCHANGED created

\* the same step with the creations counted per date (history only)
count_of(iso) == IF iso \in DOMAIN created THEN created[iso] ELSE 0

\* the write succeeds and the creation is counted
get_members_save_counted(u) ==
    /\ get_members_save_step(u, TRUE)
    /\ LET iso == task[u].new_deal.date_iso
       IN  created' = [x \in DOMAIN created \cup {iso} |->
                         IF x = iso THEN count_of(iso) + 1 ELSE created[x]]

(***************************************************************************)
(* REPORTS (src/main.py 155-234, 252-267)                                  *)
(***************************************************************************)
RECURSIVE sum_share(_)
sum_share(deals) ==
    IF deals = <<>> THEN RatOfInt(0)
    ELSE RatAdd(Head(deals).share, sum_share(Tail(deals)))

\* lines 162-171: the line of a deal, as the values it prints
report_line(deal) ==
    [day |-> <<deal_date(deal).day, deal_date(deal).month>>, name |-> deal.name,
     index |-> deal.index, rub |-> deal.rub, clean_rub |-> deal.clean_rub,
     fee |-> deal.fee, usd |-> deal.usd, rate |-> deal.rate, pool |-> deal.pool,
     members |-> deal.members, share |-> deal.share]

\* the report with the total taken over every stored deal
show_report_total_of_all(u, handler, text, start, end) ==
    LET deals == filter_deals_by_date_range(file, start, end)
        shown == [start |-> start, end |-> end, deals |-> deals,
                  total |-> IF deals = <<>> THEN None ELSE sum_share(load_deals(file)),
                  lines |-> [i \in 1..Len(deals) |-> report_line(deals[i])]]
    IN  /\ task' = [task EXCEPT ![u] =
                      [Idle EXCEPT !.pc = "await_reply", !.handler = handler,
                                   !.text = text, !.report = shown,
                                   !.reply = IF deals = <<>> THEN "no_deals" ELSE "report"]]
        /\ running' = loop_after(u, "await_reply")

\* show_report: the handler replies "no deals", or the total and one line per deal
show_report(u, handler, text, start, end) ==
    LET deals == filter_deals_by_date_range(file, start, end)
        shown == [start |-> start, end |-> end, deals |-> deals,
                  total |-> IF deals = <<>> THEN None ELSE sum_share(deals),
                  lines |-> [i \in 1..Len(deals) |-> report_line(deals[i])]]
    IN  /\ task' = [task EXCEPT ![u] =
                      [Idle EXCEPT !.pc = "await_reply", !.handler = handler,
                                   !.text = text, !.report = shown,
                                   !.reply = IF deals = <<>> THEN "no_deals" ELSE "report"]]
        /\ running' = loop_after(u, "await_reply")

show_range(u, args) ==
    /\ can_dispatch(u)
    /\ IF Len(args) # 2
       THEN Reply(u, "show_range", args, "usage", None)
       ELSE LET d1 == parse_date(args[1], now)
                d2 == parse_date(args[2], now)
            IN  IF d1 = None \/ d2 = None
                THEN Reply(u, "show_range", args, "bad_date", None)
                ELSE show_report(u, "show_range", args, d1, d2)
    /\ UNCHANGED <<file, conv, user_data, now, call, created, accepted, ledger_before>>

show_by_date(u, args) ==
    /\ can_dispatch(u)
    /\ IF args = <<>>
       THEN Reply(u, "show_by_date", args, "usage", None)
       ELSE LET d == parse_date(args[1], now)
            IN  IF d = None
                THEN Reply(u, "show_by_date", args, "bad_date", None)
                ELSE LET deals == same_day(load_deals(file), d)
                     IN  /\ task' = [task EXCEPT ![u] =
                                [Idle EXCEPT !.pc = "await_reply",
                                    !.handler = "show_by_date", !.text = args,
                                    !.report = [start |-> d, end |-> d, deals |-> deals,
                                                total |-> None],
                                    !.reply = IF deals = <<>> THEN "no_deals" ELSE "report"]]
                         /\ running' = loop_after(u, "await_reply")
    /\ UNCHANGED <<file, conv, user_data, now, call, created, accepted, ledger_before>>

show_week(u) ==
    /\ can_dispatch(u)
    /\ LET range == tuesday_week_range(None, now)
       IN  show_report(u, "show_week", <<>>, range[1], range[2])
    /\ UNCHANGED <<file, conv, user_data, now, call, created, accepted, ledger_before>>

\* str.isdigit() on the input alphabet
isdigit(txt) == txt # <<>> /\ AllDigits(txt)

\* the range with the day before the next month's first day not taken
month_range_to_next_first(year, month) ==
    LET start == date(year, month, 1)
    IN  IF start = ValueError THEN ValueError
        ELSE IF month = 12 THEN [start |-> start, end |-> date(year, 12, 31)]
        ELSE [start |-> start, end |-> date(year, month + 1, 1)]

\* lines 258-264: the range of the month, or ValueError from date()
month_range(year, month) ==
    LET start == date(year, month, 1)
    IN  IF start = ValueError THEN ValueError
        ELSE IF month = 12 THEN [start |-> start, end |-> date(year, 12, 31)]
        ELSE [start |-> start, end |-> date_minus_days(date(year, month + 1, 1), 1)]

show_month(u, args) ==
    /\ can_dispatch(u)
    /\ IF args # <<>> /\ isdigit(args[1])
       THEN LET range == month_range(now.year, DigitsVal(args[1]))
            IN  IF range = ValueError
                THEN /\ task' = [task EXCEPT ![u] =
                                   [Idle EXCEPT !.pc = "raised", !.handler = "show_month",
                                                !.text = args, !.exc = ValueError]]
                     /\ running' = loop_after(u, "raised")
                ELSE show_report(u, "show_month", args, range.start, range.end)
       ELSE Reply(u, "show_month", args, "usage", None)
    /\ UNCHANGED <<file, conv, user_data, now, call, created, accepted, ledger_before>>

\* lines 210-222: the arguments of /delete
delete_deal(u, args) ==
    /\ can_dispatch(u)
    /\ IF Len(args) # 2
       THEN Reply(u, "delete_deal", args, "usage", None)
       ELSE LET d == parse_date(args[1], now)
                num == int(args[2])
            IN  IF d = None THEN Reply(u, "delete_deal", args, "bad_date", None)
                ELSE IF num = ValueError
                THEN Reply(u, "delete_deal", args, "not_number", None)
                ELSE /\ task' = [task EXCEPT ![u] =
                                   [Idle EXCEPT !.pc = "load", !.handler = "delete_deal",
                                                !.text = args, !.d = d, !.num = num]]
                     /\ running' = loop_after(u, "load")
    /\ UNCHANGED <<file, conv, user_data, now, call, created, accepted, ledger_before>>

\* the filter without the comparison of the index
matches_date_only(deals, d, num) ==
    {i \in 1..Len(deals) : deal_date(deals[i]) = d}

\* lines 224-227: the positions of the deals with that date and index
matches(deals, d, num) ==
    {i \in 1..Len(deals) : deal_date(deals[i]) = d /\ deals[i].index = num.int}

\* del deals[i] with the position taken one too far
del_at_off_by_one(deals, i) == SubSeq(deals, 1, i) \o SubSeq(deals, i + 2, Len(deals))

\* del deals[i]
del_at(deals, i) == SubSeq(deals, 1, i - 1) \o SubSeq(deals, i + 1, Len(deals))

\* lines 223-232: load, find, "not found" or del deals[i] of the first match
delete_deal_load(u) ==
    /\ running = u
    /\ task[u].pc = "load"
    /\ task[u].handler = "delete_deal"
    /\ LET deals == load_deals(file)
           filtered == matches(deals, task[u].d, task[u].num)
       IN  IF filtered = {}
           THEN /\ task' = [task EXCEPT ![u].pc = "await_reply", ![u].reply = "not_found"]
                /\ running' = loop_after(u, "await_reply")
           ELSE LET i == CHOOSE i \in filtered : \A j \in filtered : i <= j
                IN  /\ task' = [task EXCEPT ![u].pc = "save", ![u].deals = del_at(deals, i)]
                    /\ running' = loop_after(u, "save")
    /\ UNCHANGED <<file, conv, user_data, now, call, created, accepted, ledger_before>>

\* lines 233-234: save_deals(deals), then the "deleted" message
delete_deal_save_step(u, ok) ==
    /\ running = u
    /\ task[u].pc = "save"
    /\ task[u].handler = "delete_deal"
    /\ IF ok THEN file' = save_deals(task[u].deals)
             ELSE file' \in save_deals_failed(file)
    /\ task' = [task EXCEPT ![u] = after_save(task[u], ok, "deleted", None)]
    /\ running' = loop_after(u, task'[u].pc)
    /\ UNCHANGED <<conv, user_data, now, call, created, accepted, ledger_before>>

delete_deal_save(u) == \E ok \in BOOLEAN : delete_deal_save_step(u, ok)

\* the write succeeds
delete_deal_save_ok(u) == delete_deal_save_step(u, TRUE)

(***************************************************************************)
(* OTHER (src/main.py 238-240) and the end of a handler                    *)
(***************************************************************************)
\* /cancel that also takes back the deal saved last
cancel_takes_back(u) ==
    /\ can_dispatch(u)
    /\ conv[u] # END
    /\ Reply(u, "cancel", <<>>, "cancelled", [state |-> END])
    /\ file' = IF load_deals(file) = <<>> THEN file
               ELSE save_deals(SubSeq(load_deals(file), 1, Len(load_deals(file)) - 1))
    /\ UNCHANGED <<conv, user_data, now, call, created, accepted, ledger_before>>

cancel(u) ==
    /\ can_dispatch(u)
    /\ conv[u] # END
    /\ Reply(u, "cancel", <<>>, "cancelled", [state |-> END])
    /\ UNCHANGED <<file, conv, user_data, now, call, created, accepted, ledger_before>>

\* reply_text completes and the handler returns; a conversation handler's
\* return value becomes the state of the conversation
handler_returns(u) ==
    /\ running = NoUser
    /\ task[u].pc = "await_reply"
    /\ conv' = IF task[u].ret = None THEN conv
               ELSE [conv EXCEPT ![u] = task[u].ret.state]
    /\ accepted' =
          IF task[u].ret = None \/ task[u].ret = [state |-> conv[u]] THEN accepted
          ELSE IF task[u].ret.state \in {DATE, END} THEN [accepted EXCEPT ![u] = <<>>]
          ELSE [accepted EXCEPT ![u] =
                   Append(@, [step |-> task[u].handler, text |-> task[u].text])]
    /\ task' = [task EXCEPT ![u] = Idle]
    /\ UNCHANGED <<file, user_data, running, now, call, created, ledger_before>>

\* reply_text raises (the network): the handler ends without returning a state
reply_fails(u) ==
    /\ running = NoUser
    /\ task[u].pc = "await_reply"
    /\ task' = [task EXCEPT ![u] = Idle]
    /\ UNCHANGED <<file, conv, user_data, running, now, call, created, accepted, ledger_before>>

\* an exception leaves the handler: the conversation keeps its state
handler_raises(u) ==
    /\ running = u
    /\ task[u].pc = "raised"
    /\ task' = [task EXCEPT ![u] = Idle]
    /\ running' = NoUser
    /\ UNCHANGED <<file, conv, user_data, now, call, created, accepted, ledger_before>>

(***************************************************************************)
(* The clock, and tuesday_week_range called on its own                     *)
(***************************************************************************)
\* a day passes
tick ==
    /\ toordinal(now) - toordinal(StartDay) < MaxTicks
    /\ now' = date_plus_days(now, 1)
    /\ UNCHANGED <<file, conv, user_data, task, running, call, created, accepted, ledger_before>>

call_tuesday_week_range(ref) ==
    /\ call = NoCall
    /\ LET range == tuesday_week_range(ref, now)
       IN  call' = [fn |-> "tuesday_week_range", arg |-> ref, clock |-> now,
                    ret |-> [start |-> range[1], end |-> range[2]]]
    /\ UNCHANGED <<file, conv, user_data, task, running, now, created, accepted, ledger_before>>

\* parse_date(text) called on its own
call_parse_date(text) ==
    /\ call = NoCall
    /\ call' = [fn |-> "parse_date", arg |-> [str |-> text], clock |-> now,
                ret |-> parse_date(text, now)]
    /\ UNCHANGED <<file, conv, user_data, task, running, now, created, accepted, ledger_before>>

(***************************************************************************)
(* Inputs                                                                  *)
(***************************************************************************)
OneUser == {"u1"}

T_20_07 == <<"2", "0", ".", "0", "7">>
T_21_07 == <<"2", "1", ".", "0", "7">>
T_22_7 == <<"2", "2", "/", "7">>
T_31_02 == <<"3", "1", ".", "0", "2">>
T_x == <<"x">>
T_QR == <<" ", "Q", "R">>
T_100 == <<"1", "0", "0">>
T_2_5 == <<"2", ",", "5">>
T_2 == <<"2">>
T_members == <<"#", "1", "0", " ", "#", "1", "2">>

DateTexts == {T_21_07, T_22_7, T_31_02, T_x}
NameTexts == {T_QR}
AmountTexts == {T_100, T_x}
FeeTexts == {T_2_5, T_x}
RateTexts == {T_2, T_x}
MemberTexts == {T_members, T_x}
DeleteArgs ==
    {<<dt, ix>> : dt \in {T_21_07, T_22_7}, ix \in {<<"1">>, <<"2">>}}
        \cup {<<T_x, <<"1">>>>, <<T_21_07, T_x>>, <<T_21_07>>}
RangeArgs ==
    {<<T_20_07, T_21_07>>, <<T_21_07, T_22_7>>, <<T_22_7, T_21_07>>, <<T_22_7, T_22_7>>,
     <<T_21_07, T_x>>, <<T_21_07>>}
DayArgs == {<<T_21_07>>, <<T_x>>, <<>>}
MonthArgs == {<<<<"7">>>>, <<<<"1", "2">>>>, <<<<"1", "3">>>>, <<T_x>>}

(***************************************************************************)
(* Spec: the bot with one user, whose updates are handled one at a time    *)
(***************************************************************************)
Init ==
    /\ file = NoFile
    /\ conv = [u \in Users |-> END]
    /\ user_data = [u \in Users |-> EmptyUserData]
    /\ task = [u \in Users |-> Idle]
    /\ running = NoUser
    /\ now = StartDay
    /\ call = NoCall
    /\ created = <<>>
    /\ accepted = [u \in Users |-> <<>>]
    /\ ledger_before = [u \in Users |-> <<>>]

Next ==
    \E u \in OneUser :
        \/ start_deal(u)
        \/ \E text \in DateTexts : get_date(u, text)
        \/ \E text \in NameTexts : get_name(u, text)
        \/ \E text \in AmountTexts : get_amount(u, text)
        \/ \E text \in FeeTexts : get_fee(u, text)
        \/ \E text \in RateTexts : get_rate(u, text)
        \/ \E text \in MemberTexts : get_members(u, text)
        \/ get_members_load(u)
        \/ get_members_save(u)
        \/ cancel(u)
        \/ \E args \in DeleteArgs : delete_deal(u, args)
        \/ delete_deal_load(u)
        \/ delete_deal_save(u)
        \/ \E args \in RangeArgs : show_range(u, args)
        \/ \E args \in DayArgs : show_by_date(u, args)
        \/ show_week(u)
        \/ \E args \in MonthArgs : show_month(u, args)
        \/ handler_returns(u)
        \/ reply_fails(u)
        \/ handler_raises(u)

Spec == Init /\ [][Next]_vars

(***************************************************************************)
(* SpecMoney: one user, one date, the rate texts the rate step accepts     *)
(***************************************************************************)
T_minus5 == <<"-", "5">>
T_0 == <<"0">>
MoneyRateTexts == {T_2, T_minus5, T_0, T_x}
\* a member named twice, and "#" signs that start no member
T_members_twice == <<" ", "#", "7", " ", "#", "7", "#", "1", "0", "x", "#", " ">>
MoneyMemberTexts == {T_members, T_members_twice, T_x}

NextMoney ==
    \E u \in OneUser :
        \/ start_deal(u)
        \/ get_date(u, T_21_07)
        \/ \E text \in NameTexts : get_name(u, text)
        \/ \E text \in AmountTexts : get_amount(u, text)
        \/ \E text \in FeeTexts : get_fee(u, text)
        \/ \E text \in MoneyRateTexts : get_rate(u, text)
        \/ \E text \in MoneyMemberTexts : get_members(u, text)
        \/ get_members_load(u)
        \/ get_members_save(u)
        \/ cancel(u)
        \/ delete_deal(u, <<T_21_07, <<"1">>>>)
        \/ delete_deal_load(u)
        \/ delete_deal_save(u)
        \/ handler_returns(u)
        \/ handler_raises(u)

SpecMoney == Init /\ [][NextMoney]_vars

(***************************************************************************)
(* SpecIndex: one user, valid texts, writes that succeed, creations        *)
(* counted per date                                                        *)
(***************************************************************************)
IndexDeleteArgs ==
    {<<dt, ix>> : dt \in {T_21_07, T_22_7}, ix \in {<<"1">>, <<"2">>, <<"3">>}}

RECURSIVE SumOver(_, _)
SumOver(f, S) ==
    IF S = {} THEN 0
    ELSE LET x == CHOOSE x \in S : TRUE IN f[x] + SumOver(f, S \ {x})

TotalCreated == SumOver(created, DOMAIN created)

\* no create starts once MaxCreated deals were created
get_members_counted(u, text) == TotalCreated < MaxCreated /\ get_members(u, text)

NextIndex ==
    \E u \in OneUser :
        \/ start_deal(u)
        \/ \E text \in {T_21_07, T_22_7} : get_date(u, text)
        \/ get_name(u, T_QR)
        \/ get_amount(u, T_100)
        \/ get_fee(u, T_2_5)
        \/ get_rate(u, T_2)
        \/ get_members_counted(u, T_members)
        \/ get_members_load(u)
        \/ get_members_save_counted(u)
        \/ \E args \in IndexDeleteArgs : delete_deal(u, args)
        \/ delete_deal_load(u)
        \/ delete_deal_save_ok(u)
        \/ handler_returns(u)

SpecIndex == Init /\ [][NextIndex]_vars

(***************************************************************************)
(* SpecConc: two users whose handlers may overlap wherever a handler       *)
(* awaits                                                                  *)
(***************************************************************************)
ConcDeleteArgs == {<<T_21_07, <<"1">>>>, <<T_21_07, <<"2">>>>}

\* no create starts when the ledger holds MaxDealsConc deals
get_members_conc(u, text) ==
    Len(load_deals(file)) < MaxDealsConc /\ get_members(u, text)

NextConc ==
    \E u \in Users :
        \/ start_deal(u)
        \/ get_date(u, T_21_07)
        \/ get_name(u, T_QR)
        \/ get_amount(u, T_100)
        \/ get_fee(u, T_2_5)
        \/ get_rate(u, T_2)
        \/ get_members_conc(u, T_members)
        \/ get_members_load(u)
        \/ get_members_save(u)
        \/ \E args \in ConcDeleteArgs : delete_deal(u, args)
        \/ delete_deal_load(u)
        \/ delete_deal_save(u)
        \/ handler_returns(u)
        \/ handler_raises(u)

SpecConc == Init /\ [][NextConc]_vars

(***************************************************************************)
(* SpecDates: tuesday_week_range over the reference dates, and the clock   *)
(***************************************************************************)
RefDates ==
    {fromordinal(o) :
        o \in (toordinal(StartDay) - RefSpan)..(toordinal(StartDay) + RefSpan)}

NextDates ==
    \/ tick
    \/ \E ref \in RefDates \cup {None} : call_tuesday_week_range(ref)

SpecDates == Init /\ [][NextDates]_vars

(***************************************************************************)
(* SpecReport: one user, deals of two dates and of the amounts 100 and 0,  *)
(* and the reports over a range, the week and a month                      *)
(***************************************************************************)
ReportAmountTexts == {T_100, T_0}

\* no create starts when the ledger holds MaxDealsReport deals
get_members_report(u, text) ==
    Len(load_deals(file)) < MaxDealsReport /\ get_members(u, text)

NextReport ==
    \E u \in OneUser :
        \/ start_deal(u)
        \/ \E text \in {T_21_07, T_22_7} : get_date(u, text)
        \/ get_name(u, T_QR)
        \/ \E text \in ReportAmountTexts : get_amount(u, text)
        \/ get_fee(u, T_2_5)
        \/ get_rate(u, T_2)
        \/ get_members_report(u, T_members)
        \/ get_members_load(u)
        \/ get_members_save(u)
        \/ \E args \in RangeArgs : show_range(u, args)
        \/ show_week(u)
        \/ \E args \in MonthArgs : show_month(u, args)
        \/ handler_returns(u)
        \/ handler_raises(u)

SpecReport == Init /\ [][NextReport]_vars

(***************************************************************************)
(* SpecConv: one user whose conversations are finished, cancelled, refused *)
(* and broken off, over two dates and two amounts                          *)
(***************************************************************************)
ConvDateTexts == {T_21_07, T_22_7, T_x}
ConvAmountTexts == {T_100, T_0, T_x}

NextConv ==
    \E u \in OneUser :
        \/ start_deal(u)
        \/ \E text \in ConvDateTexts : get_date(u, text)
        \/ \E text \in NameTexts : get_name(u, text)
        \/ \E text \in ConvAmountTexts : get_amount(u, text)
        \/ \E text \in FeeTexts : get_fee(u, text)
        \/ \E text \in RateTexts : get_rate(u, text)
        \/ \E text \in MemberTexts : get_members_report(u, text)
        \/ get_members_load(u)
        \/ get_members_save(u)
        \/ cancel(u)
        \/ handler_returns(u)
        \/ reply_fails(u)
        \/ handler_raises(u)

SpecConv == Init /\ [][NextConv]_vars

(***************************************************************************)
(* SpecRate: one user, one date, the rates 2 and 0, writes and replies     *)
(* that succeed                                                            *)
(***************************************************************************)
ZeroRateTexts == {T_2, T_0}

NextRate ==
    \E u \in OneUser :
        \/ start_deal(u)
        \/ get_date(u, T_21_07)
        \/ get_name(u, T_QR)
        \/ get_amount(u, T_100)
        \/ get_fee(u, T_2_5)
        \/ \E text \in ZeroRateTexts : get_rate(u, text)
        \/ \E text \in MoneyMemberTexts : get_members(u, text)
        \/ get_members_load(u)
        \/ get_members_save_ok(u)
        \/ cancel(u)
        \/ handler_returns(u)
        \/ handler_raises(u)

SpecRate == Init /\ [][NextRate]_vars

(***************************************************************************)
(* SpecCancel: one user whose conversations are finished, refused, stuck   *)
(* on rate 0 and cancelled; writes and replies succeed, and the ledger at  *)
(* each /deal is noted                                                     *)
(***************************************************************************)
NextCancel ==
    \E u \in OneUser :
        \/ start_deal_noting_ledger(u)
        \/ \E text \in DateTexts : get_date(u, text)
        \/ \E text \in NameTexts : get_name(u, text)
        \/ \E text \in AmountTexts : get_amount(u, text)
        \/ \E text \in FeeTexts : get_fee(u, text)
        \/ \E text \in ZeroRateTexts \cup {T_x} : get_rate(u, text)
        \/ \E text \in MemberTexts : get_members(u, text)
        \/ get_members_load(u)
        \/ get_members_save_ok(u)
        \/ cancel(u)
        \/ handler_returns(u)
        \/ handler_raises(u)

SpecCancel == Init /\ [][NextCancel]_vars

(***************************************************************************)
(* SpecCalendar: the month query over every month, and the clock           *)
(***************************************************************************)
\* the arguments of /month: every month, with and without a leading zero,
\* numbers that are no month, a text that is no number, and no argument
MonthTexts ==
    {<<DigitChar(m)>> : m \in 0..9} \cup {Fmt02(m) : m \in 0..13}

AllMonthArgs == {<<t>> : t \in MonthTexts} \cup {<<T_x>>, <<>>}

NextCalendar ==
    \/ tick
    \/ \E u \in OneUser :
          \/ \E args \in AllMonthArgs : show_month(u, args)
          \/ handler_returns(u)
          \/ handler_raises(u)

SpecCalendar == Init /\ [][NextCalendar]_vars

(***************************************************************************)
(* SpecParse: parse_date over the day and month texts, and the clock       *)
(***************************************************************************)
\* day 0..32 and month 0..13 written "D.M", "D/M" and "DD.MM"
DayMonthTexts ==
    {<<DigitChar(dd \div 10), DigitChar(dd % 10), ".",
       DigitChar(mm \div 10), DigitChar(mm % 10)>> : dd \in 0..32, mm \in 0..13}
      \cup {<<DigitChar(dd), sep, DigitChar(mm)>> :
                dd \in 0..9, sep \in {".", "/"}, mm \in 0..9}

T_21_07_2023 == <<"2", "1", ".", "0", "7", ".", "2", "0", "2", "3">>

\* texts around the pattern: spaces, capitals, another separator, digits
\* only, a third digit, no text, and a date written with its year
OtherDateTexts ==
    {<<" ", "2", "1", ".", "0", "7", " ">>, <<"2", "1", "-", "0", "7">>,
     <<"2", "1", "0", "7">>, <<"1", "2", "3", ".", "0", "7">>, <<".", "7">>,
     <<"2", "1", ".">>, <<"x", "2", "1", ".", "0", "7">>, T_x, <<>>,
     Today, <<" ", "T", "O", "D", "A", "Y">>, T_21_07_2023}

ParseTexts == DayMonthTexts \cup OtherDateTexts

NextParse ==
    \/ tick
    \/ \E text \in ParseTexts : call_parse_date(text)

SpecParse == Init /\ [][NextParse]_vars

(***************************************************************************)
(* Properties                                                              *)
(***************************************************************************)
\* the deals in the store
Ledger == load_deals(file)

SameKey(a, b) == a.date_iso = b.date_iso /\ a.index = b.index

\* C1: in every reachable ledger no two stored deals have the same
\* (date, index) pair.
C1_UniqueDateIndex ==
    \A i, j \in 1..Len(Ledger) : SameKey(Ledger[i], Ledger[j]) => i = j

\* C2: the Nth deal created for a date, counted in creation order whatever was
\* deleted since, gets index N when it is created.
C2_NthCreatedGetsIndexN ==
    \A u \in Users :
        (task[u].handler = "get_members" /\ task[u].reply = "saved") =>
            task[u].new_deal.index = count_of(task[u].new_deal.date_iso)

\* a delete_deal write that succeeds, and what it must leave in the file
DeleteSaved(u) ==
    /\ task[u].handler = "delete_deal"
    /\ task[u].pc = "save"
    /\ task'[u].saved = "ok"

IsTarget(deal, t) == deal.date_iso = isoformat(t.d) /\ deal.index = t.num.int

RemovedFirstMatch(old, new, t) ==
    \E i \in 1..Len(old) :
        /\ IsTarget(old[i], t)
        /\ \A j \in 1..(i - 1) : ~IsTarget(old[j], t)
        /\ Len(new) = Len(old) - 1
        /\ \A k \in 1..(i - 1) : new[k] = old[k]
        /\ \A k \in i..Len(new) : new[k] = old[k + 1]

\* C3: a delete that matches a stored deal removes exactly one record, the
\* first match in storage order, and leaves every other record as it was, in
\* the same order.
C3_DeleteRemovesOne ==
    [][\A u \in Users :
          DeleteSaved(u) => RemovedFirstMatch(load_deals(file), load_deals(file'), task[u])]_vars

\* a delete has been written and a deal of the same date with a greater index
\* is still in the ledger, with its index
C3_Witness ==
    \E u \in Users :
        /\ task[u].handler = "delete_deal"
        /\ task[u].reply = "deleted"
        /\ \E i \in 1..Len(Ledger) :
              /\ Ledger[i].date_iso = isoformat(task[u].d)
              /\ Ledger[i].index > task[u].num.int

\* the steps of a delete that fails
BadDeleteArgs == {<<T_x, <<"1">>>>, <<T_21_07, T_x>>}

DeleteFailures == {"not_found", "bad_date", "not_number"}

DeleteLooksUp(u) ==
    /\ task[u].handler = "delete_deal"
    /\ task[u].pc = "load"
    /\ task'[u].pc # "load"

DeleteStarts(u) == task[u].pc = "idle" /\ task'[u].handler = "delete_deal"

\* C4: a delete whose (date, index) matches no stored deal replies "not found"
\* and writes nothing; a delete whose date or index does not parse replies
\* with that failure and writes nothing; in both the ledger stays as it was
\* until the handler ends.
C4_DeleteNotFound ==
    [][\A u \in Users :
          /\ (DeleteLooksUp(u) /\ \A i \in 1..Len(Ledger) : ~IsTarget(Ledger[i], task[u]))
                => /\ task'[u].reply = "not_found"
                   /\ task'[u].saved = "no"
                   /\ file' = file
          /\ (DeleteStarts(u) /\ task'[u].text \in BadDeleteArgs)
                => /\ task'[u].reply \in {"bad_date", "not_number"}
                   /\ task'[u].saved = "no"
                   /\ file' = file
          /\ (task[u].handler = "delete_deal" /\ task[u].reply \in DeleteFailures)
                => /\ file' = file
                   /\ task'[u].pc = "idle"]_vars

\* "not found" for a date that has a deal in the ledger, under another index
C4_Witness ==
    \E u \in Users :
        /\ task[u].handler = "delete_deal"
        /\ task[u].reply = "not_found"
        /\ \E i \in 1..Len(Ledger) : Ledger[i].date_iso = isoformat(task[u].d)

\* a handler between its load_deals and its save_deals
Loaded(u) == task[u].pc = "save"
DoesLoad(u) == task[u].pc = "load" /\ task'[u].pc # "load"
DoesSave(u) == task[u].pc = "save" /\ task'[u].pc # "save"

\* C5: whatever the interleaving of the create and delete handlers of two
\* users, no other handler calls load_deals or save_deals between a handler's
\* load_deals and its own save_deals, and no update is lost: a create writes
\* the file's deals plus its own, a delete writes them minus its target.
C5_MutualExclusion ==
    [][\A u \in Users :
          /\ \A v \in Users \ {u} : Loaded(u) => ~DoesLoad(v) /\ ~DoesSave(v)
          /\ (DoesSave(u) /\ task'[u].saved = "ok" /\ task[u].handler = "get_members")
                => load_deals(file') = Append(load_deals(file), task[u].new_deal)
          /\ (DoesSave(u) /\ task'[u].saved = "ok" /\ task[u].handler = "delete_deal")
                => RemovedFirstMatch(load_deals(file), load_deals(file'), task[u])]_vars

\* two creates in flight at once, both written: both deals are in the ledger,
\* with different indices
C5_Witness ==
    /\ \A u \in Users : task[u].handler = "get_members" /\ task[u].reply = "saved"
    /\ Len(Ledger) = 2
    /\ Ledger[1].index # Ledger[2].index
    /\ {Ledger[1], Ledger[2]} = {task[u].new_deal : u \in Users}

\* the texts the create steps refuse, with the warning and the state of each step
BadCreateInput(handler, text) ==
    \/ handler = "get_date" /\ text \in {T_31_02, T_x}
    \/ handler \in {"get_amount", "get_fee", "get_rate"} /\ text = T_x
    \/ handler = "get_members" /\ text = T_x

WarningOf(handler) ==
    CASE handler = "get_date" -> "bad_date"
      [] handler = "get_amount" -> "not_number"
      [] handler = "get_fee" -> "not_number"
      [] handler = "get_rate" -> "bad_rate"
      [] handler = "get_members" -> "need_member"

StateOf(handler) ==
    CASE handler = "get_date" -> DATE
      [] handler = "get_amount" -> AMOUNT
      [] handler = "get_fee" -> FEE
      [] handler = "get_rate" -> RATE
      [] handler = "get_members" -> MEMBERS

CreateWarnings == {"bad_date", "not_number", "bad_rate", "need_member"}

\* C6: a validation failure in the create flow (a date that does not parse, an
\* amount, fee or rate that is no number, a members text without "#digits")
\* is answered with the warning of that field before anything is written: the
\* file is unchanged and the conversation stays in the state of that field.
C6_ValidationFailure ==
    [][\A u \in Users :
          /\ (task[u].pc = "idle" /\ BadCreateInput(task'[u].handler, task'[u].text))
                => /\ task'[u].pc = "await_reply"
                   /\ task'[u].reply = WarningOf(task'[u].handler)
                   /\ task'[u].saved = "no"
                   /\ conv[u] = StateOf(task'[u].handler)
                   /\ task'[u].ret = [state |-> conv[u]]
                   /\ file' = file
                   /\ user_data' = user_data
          /\ (BadCreateInput(task[u].handler, task[u].text)
                  /\ task[u].reply \in CreateWarnings)
                => /\ file' = file
                   /\ conv'[u] = conv[u]
                   /\ task'[u].pc = "idle"]_vars

\* the rate step has refused its text: the conversation is in RATE and the
\* handler is sending the warning
C6_Witness ==
    \E u \in Users :
        /\ task[u].handler = "get_rate"
        /\ task[u].text = T_x
        /\ task[u].reply = "bad_rate"
        /\ conv[u] = RATE
        /\ Ledger # <<>>

\* C7: "saved" and "deleted" are sent only after save_deals has returned; a
\* failed write raises out of the handler, which sends nothing.
C7_SuccessAfterWrite ==
    \A u \in Users :
        /\ task[u].reply \in {"saved", "deleted"} => task[u].saved = "ok"
        /\ task[u].saved = "failed" =>
              /\ task[u].pc = "raised"
              /\ task[u].exc = OSError
              /\ task[u].reply = ""

\* a write has failed and the exception is leaving the handler
C7_Witness ==
    \E u \in Users :
        /\ task[u].handler \in {"get_members", "delete_deal"}
        /\ task[u].saved = "failed"
        /\ task[u].pc = "raised"

\* C8: every deal in the ledger has exchangeRate > 0.
C8_RatePositive == \A i \in 1..Len(Ledger) : Ledger[i].rate.n > 0

\* the deals of a range, stated on day numbers
InRange(deal, start, end) ==
    LET d == toordinal(deal_date(deal))
    IN  toordinal(start) <= d /\ d <= toordinal(end)

\* the k-th position, in storage order, of a stored deal in range
KthInRange(deals, start, end, k) ==
    CHOOSE i \in 1..Len(deals) :
        /\ InRange(deals[i], start, end)
        /\ Cardinality({j \in 1..i : InRange(deals[j], start, end)}) = k

IsRangeOf(found, deals, start, end) ==
    /\ Len(found) = Cardinality({i \in 1..Len(deals) : InRange(deals[i], start, end)})
    /\ \A k \in 1..Len(found) : found[k] = deals[KthInRange(deals, start, end, k)]

RangeHandlers == {"show_range", "show_week", "show_month"}

\* C9: filter_deals_by_date_range(start, end) is the stored deals with
\* start <= date <= end, in storage order; it is empty when none is in range,
\* as when start > end.
C9_FilterInclusive ==
    \A u \in Users :
        (task[u].handler \in RangeHandlers /\ task[u].report # None) =>
            LET r == task[u].report
            IN  /\ IsRangeOf(r.deals, Ledger, r.start, r.end)
                /\ toordinal(r.start) > toordinal(r.end) => r.deals = <<>>

\* a range that ends on the date of a stored deal and leaves another deal out
C9_Witness ==
    \E u \in Users :
        /\ task[u].handler = "show_range"
        /\ task[u].report # None
        /\ task[u].report.deals # <<>>
        /\ Len(task[u].report.deals) < Len(Ledger)
        /\ task[u].report.start # task[u].report.end
        /\ \E i \in 1..Len(task[u].report.deals) :
              deal_date(task[u].report.deals[i]) = task[u].report.end

\* C10: for every reference date, tuesday_week_range(ref) is (start, end) with
\* start a Tuesday, end six days after start, and start <= ref <= end.
\* StartDay is a Tuesday, so a day is a Tuesday when it is a whole number of
\* weeks away from it.
C10_TuesdayWeek ==
    call.fn = "tuesday_week_range" =>
        LET ref == IF call.arg = None THEN call.clock ELSE call.arg
            start == toordinal(call.ret.start)
            end == toordinal(call.ret.end)
        IN  /\ (start - toordinal(StartDay)) % 7 = 0
            /\ end = start + 6
            /\ start <= toordinal(ref)
            /\ toordinal(ref) <= end

\* the reference date is a Monday in another year than its Tuesday: the week
\* ends on it
C10_Witness ==
    /\ call.fn = "tuesday_week_range"
    /\ call.arg # None
    /\ call.ret.end = call.arg
    /\ call.ret.start.year < call.arg.year

\* the last day of each month, by the calendar
LastDayOfMonth(y, m) ==
    IF m = 2
    THEN (IF y % 4 = 0 /\ (y % 100 # 0 \/ y % 400 = 0) THEN 29 ELSE 28)
    ELSE <<31, 0, 31, 30, 31, 30, 31, 31, 30, 31, 30, 31>>[m]

MonthQueryStarts(u) == task[u].pc = "idle" /\ task'[u].handler = "show_month"

\* C11: for every month number 1..12 given to /month, the report is made over
\* the first through the last calendar day of that month in the current year
\* (month 12: Dec 1 to Dec 31; month 4: Apr 1 to Apr 30).
C11_MonthRange ==
    [][\A u \in Users :
          (MonthQueryStarts(u) /\ task'[u].text # <<>> /\ isdigit(task'[u].text[1])
              /\ DigitsVal(task'[u].text[1]) \in 1..12)
            => LET m == DigitsVal(task'[u].text[1])
                   r == task'[u].report
               IN  /\ r # None
                   /\ r.start = [year |-> now.year, month |-> m, day |-> 1]
                   /\ r.end = [year |-> now.year, month |-> m,
                               day |-> LastDayOfMonth(now.year, m)]]_vars

\* /month 02 asked in a leap year and /month 12 asked in the year after it
C11_Witness ==
    \E u \in Users :
        /\ task[u].handler = "show_month"
        /\ task[u].report # None
        /\ \/ task[u].text = <<<<"0", "2">>>> /\ task[u].report.end.day = 29
           \/ /\ task[u].text = <<<<"1", "2">>>>
              /\ task[u].report.end = [year |-> 2025, month |-> 12, day |-> 31]

\* the "#digits" tokens of a text: the "#" signs that a digit follows
TokenStarts(raw) == {i \in 1..Len(raw) : raw[i] = "#" /\ IsDigitAt(raw, i + 1)}

RECURSIVE IsSubsequence(_, _)
IsSubsequence(a, b) ==
    IF a = <<>> THEN TRUE
    ELSE IF b = <<>> THEN FALSE
    ELSE \/ Head(a) = Head(b) /\ IsSubsequence(Tail(a), Tail(b))
         \/ IsSubsequence(a, Tail(b))

AppendsOne(old, new) ==
    Len(new) = Len(old) + 1 /\ SubSeq(new, 1, Len(old)) = old

CreateSaved(u) ==
    /\ task[u].handler = "get_members"
    /\ task[u].pc = "save"
    /\ task'[u].saved = "ok"

\* C13: a successful create appends exactly one record at the end of the
\* ledger and changes no existing record; every step of every operation
\* leaves the stored deals as they were, in their order, except for the
\* records it removes and the one record a create adds at the end, so the
\* storage order is the creation order.
C13_AppendOnly ==
    [][/\ \A u \in Users : CreateSaved(u) => file' # file
       /\ file' # file =>
             LET old == load_deals(file)
                 new == load_deals(file')
             IN  IF \E u \in Users : CreateSaved(u)
                 THEN AppendsOne(old, new)
                 ELSE IsSubsequence(new, old)]_vars

\* a create has been written after a delete: the ledger holds an older deal
\* of another date first and the new deal last
C13_Witness ==
    \E u \in Users :
        /\ task[u].handler = "get_members"
        /\ task[u].reply = "saved"
        /\ Len(Ledger) >= 2
        /\ Ledger[Len(Ledger)] = task[u].new_deal
        /\ Ledger[1].date_iso # task[u].new_deal.date_iso
        /\ Ledger[1].index = 2

\* save_deals is being called by handler u
Saves(u) == running = u /\ task[u].pc = "save"

\* C14: load_deals returns the empty sequence, and raises nothing, when
\* deals.json does not exist and when its content does not parse; otherwise it
\* returns exactly the collection last written by save_deals: the file
\* changes only in a call of save_deals, and after a call that succeeds
\* load_deals returns the collection that was passed to it.
C14_LoadDeals ==
    [][/\ file.state \in {"absent", "corrupt"} => load_deals(file) = <<>>
       /\ file'.state \in {"absent", "corrupt"} => load_deals(file') = <<>>
       /\ \A u \in Users :
             (Saves(u) /\ task'[u].saved = "ok") => load_deals(file') = task[u].deals
       /\ file' # file => \E u \in Users : Saves(u)]_vars

\* a write of two deals failed and left a file that does not parse: the
\* ledger loads as empty
C14_Witness ==
    \E u \in Users :
        /\ task[u].saved = "failed"
        /\ Len(task[u].deals) >= 2
        /\ file.state = "corrupt"
        /\ Ledger = <<>>

\* the shares of the first k deals added up from the left, as sum() adds
RECURSIVE ShareSum(_, _)
ShareSum(deals, k) ==
    IF k = 0 THEN RatOfInt(0) ELSE RatAdd(ShareSum(deals, k - 1), deals[k].share)

\* C15: a report over a non-empty set of filtered deals shows the total equal
\* to the sum of the shares of exactly those deals, with one line per deal; a
\* report over no deal is the "no deals" reply, with no total and no line, so
\* it differs from a report whose total is zero.
C15_ReportTotals ==
    \A u \in Users :
        (task[u].handler \in RangeHandlers /\ task[u].report # None) =>
            LET r == task[u].report
            IN  /\ IsRangeOf(r.deals, Ledger, r.start, r.end)
                /\ Len(r.lines) = Len(r.deals)
                /\ \A k \in 1..Len(r.deals) :
                      /\ r.lines[k].name = r.deals[k].name
                      /\ r.lines[k].index = r.deals[k].index
                      /\ r.lines[k].share = r.deals[k].share
                      /\ r.lines[k].members = r.deals[k].members
                /\ r.deals # <<>> =>
                      /\ task[u].reply = "report"
                      /\ r.total = ShareSum(r.deals, Len(r.deals))
                /\ r.deals = <<>> =>
                      /\ task[u].reply = "no_deals"
                      /\ r.total = None
                      /\ r.total # RatOfInt(0)

\* a report with a line and total zero, over a range that leaves out a stored
\* deal with a share that is not zero
C15_Witness ==
    \E u \in Users :
        /\ task[u].handler = "show_range"
        /\ task[u].reply = "report"
        /\ task[u].report.total = RatOfInt(0)
        /\ Len(task[u].report.lines) = 1
        /\ \E i \in 1..Len(Ledger) : Ledger[i].share.n > 0

\* a text that is one or two digits, "." or "/", and one or two digits
IsDayMonthText(txt) ==
    \E k \in 1..2 :
        /\ Len(txt) \in {k + 2, k + 3}
        /\ \A i \in 1..k : txt[i] \in Digit
        /\ txt[k + 1] \in {".", "/"}
        /\ \A i \in (k + 2)..Len(txt) : txt[i] \in Digit

DayOf(txt) == DigitsVal(SubSeq(txt, 1, IF txt[2] \in Digit THEN 2 ELSE 1))
MonthOf(txt) == DigitsVal(SubSeq(txt, (IF txt[2] \in Digit THEN 4 ELSE 3), Len(txt)))

IsCalendarDay(y, m, d) == m \in 1..12 /\ d >= 1 /\ d <= LastDayOfMonth(y, m)

\* C16: parse_date on a day/month text returns a date if and only if (day,
\* month) is a calendar day of the current year, and then that day of the
\* current year; it returns None for a combination such as 31.02 and for a
\* text that is no day/month text, a text with a year component included.
C16_ParseDate ==
    call.fn = "parse_date" =>
        LET txt == lower(strip(call.arg.str))
            y == call.clock.year
        IN  IF txt = Today THEN call.ret = call.clock
            ELSE IF IsDayMonthText(txt)
            THEN IF IsCalendarDay(y, MonthOf(txt), DayOf(txt))
                 THEN call.ret = [year |-> y, month |-> MonthOf(txt), day |-> DayOf(txt)]
                 ELSE call.ret = None
            ELSE call.ret = None

\* the steps of the conversation before MEMBERS, in their order
StepOrder == <<"get_date", "get_name", "get_amount", "get_fee", "get_rate">>

\* the value a step takes from the text it accepted
ValueOf(a) ==
    CASE a.step = "get_date" -> parse_date(a.text, now)
      [] a.step = "get_name" -> [str |-> strip(a.text)]
      [] OTHER -> float(replace_comma(a.text))

LastOf(deals) == deals[Len(deals)]

MembersStepStarts(u) ==
    /\ task[u].pc = "idle"
    /\ task'[u].handler = "get_members"
    /\ TokenStarts(strip(task'[u].text)) # {}

\* C18: in MEMBERS, the step given a text with at least one "#digits" token
\* raises nothing, persists exactly one new deal and ends the conversation.
C18_MembersStepPersists ==
    [][\A u \in Users :
          /\ MembersStepStarts(u) =>
                /\ conv[u] = MEMBERS
                /\ task'[u].pc = "load"
          /\ (task[u].handler = "get_members" /\ task[u].pc = "save") =>
                /\ AppendsOne(load_deals(file), load_deals(file'))
                /\ task'[u].pc = "await_reply"
                /\ task'[u].ret = [state |-> END]
          /\ (task[u].handler = "get_members" /\ task[u].pc = "await_reply"
                  /\ task[u].saved = "ok" /\ task'[u].pc = "idle") =>
                conv'[u] = END]_vars

CancelStarts(u) == task[u].pc = "idle" /\ task'[u].handler = "cancel"

CancelEnds(u) == task[u].handler = "cancel" /\ task'[u].pc = "idle"

====
